---- MODULE Spec2Model ----
(***************************************************************************)
(* Model of the benchmark harness of mathvision: the script                *)
(* src/test_endpoint.py (run_single, the bounded-concurrency dispatcher    *)
(* generate_async / run_benchmark, the resume controller                   *)
(* resume_benchmark), its older variant src/test_endpoint_concurrent.py,   *)
(* the scorer src/evaluate.py and the prompt builder build_text.           *)
(*                                                                         *)
(* One behaviour of Spec is one session of "python test_endpoint.py" on    *)
(* one results file: a first invocation without --resume_file, then any    *)
(* number of invocations with --resume_file.  The dataset file test.jsonl  *)
(* is the same in every invocation.                                        *)
(***************************************************************************)
EXTENDS Integers, Sequences, FiniteSets, TLC

(* ------------------------------ bounds -------------------------------- *)

\* number of lines of test.jsonl
DataLen == 2
\* largest --concurrency value tried
MaxConc == 2

\* entries of a results file given to the scorer
MaxEntries == 2

\* options of one question given to the prompt builder
MaxOptions == 6

(* ------------------------- Python value encodings ---------------------- *)

\* Python's None
None == "<None>"
\* a key that is not in the dict
Absent == "<absent>"
\* argparse's default for --n (n is None), against <<k>> for --n k
Omitted == <<>>

Min(a, b) == IF a <= b THEN a ELSE b

\* the labels of format_options
labels == <<"A", "B", "C", "D", "E">>

(* ------------------------------ dataset -------------------------------- *)

\* The "id" fields of test.jsonl, line by line: distinct, increasing,
\* possibly with gaps (an id need not equal the line's 1-indexed position).
IdSeqs ==
    {s \in [1..DataLen -> 1..(DataLen + 1)] :
        \A p \in 1..(DataLen - 1) : s[p] < s[p + 1]}

\* The "options" fields tried: no line has options (entry.get("options", [])
\* gives []), or the first line has one option more than there are labels.
NoOptions == [p \in 1..DataLen |-> <<>>]
ManyOptions == [i \in 1..(Len(labels) + 1) |-> "A"]
FirstLineManyOptions ==
    [p \in 1..DataLen |-> IF p = 1 THEN ManyOptions ELSE <<>>]

\* the ids of a file whose every id is the line's 1-indexed position
PositionIds == [p \in 1..DataLen |-> p]

\* load_test_data: one dict per line.  id stands for int(entry["id"]); the
\* question and the answer of the line at position p are represented by p
\* (each line has its own text).
load_test_data(ids, options) ==
    [p \in 1..Len(ids) |->
        [id |-> ids[p], question |-> p, answer |-> p, options |-> options[p]]]

Datasets ==
    {load_test_data(s, NoOptions) : s \in IdSeqs}
        \cup {load_test_data(PositionIds, FirstLineManyOptions)}

(* ------------------------------ endpoint ------------------------------- *)

\* What the network can hand back to client.post: an HTTP response with a
\* status and a body, or a transport/timeout exception.  The answers tried:
\* 200 with a JSON string, 200 with JSON null, another 2xx status, a server
\* error, and a timeout.
Replies ==
    {[kind |-> "response", status |-> 200, body |-> "\"A\""],
     [kind |-> "response", status |-> 200, body |-> "null"],
     [kind |-> "response", status |-> 201, body |-> "\"A\""],
     [kind |-> "response", status |-> 500, body |-> "Internal Server Error"],
     [kind |-> "timeout", status |-> 0, body |-> ""]}

NoReply == [kind |-> "none", status |-> 0, body |-> ""]

\* httpx Response.raise_for_status(): raises HTTPStatusError unless the
\* status is a 2xx status (every httpx release lets 2xx through and raises
\* for 4xx and 5xx).
RaisesForStatus(status) == ~(status >= 200 /\ status <= 299)

\* httpx Response.json(): json.loads of the body.
ResponseJson(body) ==
    CASE body = "\"A\"" -> [ok |-> TRUE, value |-> "A"]
      [] body = "null" -> [ok |-> TRUE, value |-> None]
      [] OTHER -> [ok |-> FALSE, value |-> None]

\* What gather(..., return_exceptions=True) collects for one task
Raised(name) ==
    [is_exception |-> TRUE, str |-> name, image_num |-> 0, raw_response |-> None]

Returned(image_num, raw) ==
    [is_exception |-> FALSE, str |-> Absent, image_num |-> image_num,
     raw_response |-> raw]

NoResult ==
    [is_exception |-> FALSE, str |-> "<pending>", image_num |-> 0,
     raw_response |-> None]

\* generate, from the moment httpx.post returns or raises (lines 52-56)
generate(image_num, reply) ==
    IF reply.kind = "timeout" THEN Raised("ReadTimeout")
    ELSE IF reply.status # 200 THEN Raised("Exception")
    ELSE IF ~ResponseJson(reply.body).ok THEN Raised("JSONDecodeError")
    ELSE Returned(image_num, ResponseJson(reply.body).value)

\* generate_async, from the moment client.post resumes (lines 71-73)
generate_async(image_num, reply) ==
    IF reply.kind = "timeout" THEN Raised("ReadTimeout")
    ELSE IF RaisesForStatus(reply.status)
         THEN Raised("HTTPStatusError")
    ELSE IF ~ResponseJson(reply.body).ok THEN Raised("JSONDecodeError")
    ELSE Returned(image_num, ResponseJson(reply.body).value)

(* ------------------------ run_benchmark, pure parts --------------------- *)

\* data[j] of Python for a 0-indexed j (a negative j counts from the end)
PyIndex(d, j) == IF j >= 0 THEN d[j + 1] ELSE d[Len(d) + j + 1]

\* data[j] raises IndexError
PyIndexRaises(d, j) == j >= Len(d) \/ j < 0 - Len(d)

resolve_end_idx(start, n, total) ==
    IF n = Omitted THEN [raised |-> FALSE, value |-> total]
    ELSE IF n[1] <= 0 THEN [raised |-> TRUE, value |-> 0]
    ELSE [raised |-> FALSE, value |-> Min(start + n[1] - 1, total)]

\* list(range(start, end_idx + 1))
PyRange(start, end_idx) ==
    IF end_idx < start THEN <<>>
    ELSE [k \in 1..(end_idx - start + 1) |-> start + k - 1]

\* One coroutine of the tasks list: the image_num and the dataset line whose
\* question and options go into the request.
Task(image_num, item) ==
    [image_num |-> image_num, question |-> item.question,
     options |-> item.options]

\* tasks = [generate_async(..., image_num=i, question=data[i - 1][...]) ...]
RunTasks(d, start, end_idx) ==
    LET r == PyRange(start, end_idx)
    IN  [k \in 1..Len(r) |-> Task(r[k], PyIndex(d, r[k] - 1))]

\* The entry built from one gathered result
MakeEntry(image_num, item, result) ==
    [image_num |-> image_num,
     question |-> item.question,
     expected |-> item.answer,
     error |-> IF result.is_exception THEN result.str ELSE Absent,
     raw_response |-> IF result.is_exception THEN None ELSE result.raw_response]

\* (mutant) enumerate(results, start=1): the start offset is forgotten
ProcessedFromOne(d, start, res) ==
    [k \in 1..Len(res) |-> MakeEntry(k, PyIndex(d, k - 1), res[k])]

\* for i, result in enumerate(results, start=start): processed.append(entry)
Processed(d, start, res) ==
    [k \in 1..Len(res) |->
        MakeEntry(start + k - 1, PyIndex(d, start + k - 2), res[k])]

(* ---------------------- resume_benchmark, pure parts -------------------- *)

HasError(entry) == entry.error # Absent

\* (mutant) every entry of the file is taken for a failed one
FailedEntriesAll(rows) == rows

\* [entry for entry in existing_results if "error" in entry]
FailedEntries(rows) == SelectSeq(rows, HasError)

\* failed_image_nums, with failed_image_nums[:n] when n is given
FailedImageNums(rows, n) ==
    LET f == FailedEntries(rows)
        nums == [k \in 1..Len(f) |-> f[k].image_num]
    IN  IF n = Omitted THEN nums ELSE SubSeq(nums, 1, Min(n[1], Len(nums)))

\* {int(entry["id"]): entry for entry in test_data}: a later line wins
InTestDataMap(d, image_num) == \E p \in 1..Len(d) : d[p].id = image_num

TestDataMap(d, image_num) ==
    LET p == CHOOSE q \in 1..Len(d) :
                 /\ d[q].id = image_num
                 /\ \A r \in (q + 1)..Len(d) : d[r].id # image_num
    IN  d[p]

ValidImageNums(d, failed) ==
    LET Known(image_num) == InTestDataMap(d, image_num)
    IN  SelectSeq(failed, Known)

\* (mutant) the count of the image_nums kept, not of those dropped
SkippedCountsValid(failed, valid) == Len(valid)

\* skipped = len(failed_image_nums) - len(valid_image_nums)
Skipped(failed, valid) == Len(failed) - Len(valid)

ResumeTasks(d, valid) ==
    [k \in 1..Len(valid) |-> Task(valid[k], TestDataMap(d, valid[k]))]

\* for img_num, result in zip(valid_image_nums, results): new_results.append(entry)
NewResults(d, valid, res) ==
    [k \in 1..Min(Len(valid), Len(res)) |->
        MakeEntry(valid[k], TestDataMap(d, valid[k]), res[k])]

\* new_results_map = {entry["image_num"]: entry ...}: a later entry wins
InNewResultsMap(new, image_num) == \E k \in 1..Len(new) : new[k].image_num = image_num

NewResultsMap(new, image_num) ==
    LET k == CHOOSE q \in 1..Len(new) :
                 /\ new[q].image_num = image_num
                 /\ \A r \in (q + 1)..Len(new) : new[r].image_num # image_num
    IN  new[k]

\* (mutant) existing_results[i].update(new): a key the new entry lacks (the
\* error of a retry that succeeded) keeps its old value
MergedByUpdate(rows, new) ==
    [i \in 1..Len(rows) |->
        IF InNewResultsMap(new, rows[i].image_num)
        THEN [NewResultsMap(new, rows[i].image_num) EXCEPT
                 !.error = IF @ = Absent THEN rows[i].error ELSE @]
        ELSE rows[i]]

\* (mutant) the k-th new result overwrites the k-th row of the file
MergedByIndex(rows, new) ==
    [i \in 1..Len(rows) |-> IF i <= Len(new) THEN new[i] ELSE rows[i]]

\* for i, entry in enumerate(existing_results): replace the matching entries
Merged(rows, new) ==
    [i \in 1..Len(rows) |->
        IF InNewResultsMap(new, rows[i].image_num)
        THEN NewResultsMap(new, rows[i].image_num)
        ELSE rows[i]]

(* ---------------- evaluate.py: the scorer, pure parts ------------------- *)

\* a str is a sequence of characters; each of the two answer tags is kept
\* as one element
OpenTag == "<answer>"
CloseTag == "</answer>"

\* the str "None" that extract_answer returns when there is no answer
NoneStr == <<"N", "o", "n", "e">>

\* JSON null where a str is expected
Null == <<None>>

\* isinstance(response, str)
IsStr(response) == response # Null

IsSpace(c) == c \in {" ", "\n"}

RECURSIVE LStrip(_)
LStrip(s) ==
    IF s = <<>> THEN s
    ELSE IF IsSpace(Head(s)) THEN LStrip(Tail(s)) ELSE s

RECURSIVE RStrip(_)
RStrip(s) ==
    IF s = <<>> THEN s
    ELSE IF IsSpace(s[Len(s)]) THEN RStrip(SubSeq(s, 1, Len(s) - 1)) ELSE s

\* str.strip()
PyStrip(s) == RStrip(LStrip(s))

\* "a in b" on two str
PyIn(a, b) == \E i \in 0..(Len(b) - Len(a)) : SubSeq(b, i + 1, i + Len(a)) = a

SetMin(S) == CHOOSE x \in S : \A y \in S : x <= y

\* re.search(r"<answer>(.*?)</answer>", response, re.DOTALL): the leftmost
\* opening tag that has a closing tag after it, up to the nearest closing tag
AnswerMatch(response) ==
    LET opens == {i \in 1..Len(response) :
                     /\ response[i] = OpenTag
                     /\ \E j \in (i + 1)..Len(response) : response[j] = CloseTag}
    IN  IF opens = {} THEN [found |-> FALSE, group1 |-> <<>>]
        ELSE LET i == SetMin(opens)
                 j == SetMin({k \in (i + 1)..Len(response) :
                                 response[k] = CloseTag})
             IN  [found |-> TRUE, group1 |-> SubSeq(response, i + 1, j - 1)]

extract_answer(response) ==
    IF ~IsStr(response) THEN NoneStr
    ELSE IF AnswerMatch(response).found
         THEN PyStrip(AnswerMatch(response).group1)
         ELSE NoneStr

\* entry["correct"] (lines 54-57)
EntryCorrect(entry) ==
    LET expected == PyStrip(entry.expected)
        extracted == extract_answer(entry.raw_response)
    IN  PyIn(extracted, expected) \/ PyIn(expected, extracted)

\* the lines of the scorer's test.jsonl, by int(entry["id"])
load_levels(test_file) == [id \in DOMAIN test_file |-> test_file[id].level]
load_options(test_file) == [id \in DOMAIN test_file |-> test_file[id].options]

\* levels.get(image_num): <<>> for None, <<level>> otherwise
LevelOf(levels, image_num) ==
    IF image_num \in DOMAIN levels THEN <<levels[image_num]>> ELSE <<>>

\* "if level:"
LevelTruthy(level) == IF level = <<>> THEN FALSE ELSE level[1] # 0

\* options_map.get(image_num, [])
OptionsOf(options_map, image_num) ==
    IF image_num \in DOMAIN options_map THEN options_map[image_num] ELSE <<>>

is_multiple_choice(options_list) == Len(options_list) > 0

CountTotalOnly(stats, is_correct) == [stats EXCEPT !.total = @ + 1]

\* stats["total"] += 1; if entry["correct"]: stats["correct"] += 1
Count(stats, is_correct) ==
    [total |-> stats.total + 1,
     correct |-> IF is_correct THEN stats.correct + 1 ELSE stats.correct]

ZeroStats == [correct |-> 0, total |-> 0]

\* the entry as the loop body leaves it (lines 54-67)
Annotate(entry, levels, options_map) ==
    [image_num |-> entry.image_num,
     expected |-> entry.expected,
     raw_response |-> entry.raw_response,
     extracted |-> extract_answer(entry.raw_response),
     correct |-> EntryCorrect(entry),
     level |-> LevelOf(levels, entry.image_num),
     is_multiple_choice |->
         is_multiple_choice(OptionsOf(options_map, entry.image_num))]

(* ---------------- build_text: the prompt builder ------------------------ *)

ImageTag == "<image1>"

\* re.sub(r"\n?<image\d+>", "", question)
RECURSIVE clean_question(_)
clean_question(question) ==
    IF question = <<>> THEN <<>>
    ELSE IF Head(question) = ImageTag THEN clean_question(Tail(question))
    ELSE IF /\ Head(question) = "\n"
            /\ Len(question) >= 2
            /\ question[2] = ImageTag
         THEN clean_question(SubSeq(question, 3, Len(question)))
         ELSE <<Head(question)>> \o clean_question(Tail(question))

\* ", ".join(parts), parts a list of str
RECURSIVE Join(_)
Join(parts) ==
    IF parts = <<>> THEN <<>>
    ELSE IF Len(parts) = 1 THEN parts[1]
    ELSE parts[1] \o <<",", " ">> \o Join(Tail(parts))

\* labels[: len(options)]
LabelsPrefix(k) == SubSeq(labels, 1, Min(k, Len(labels)))

\* labels[i] raises IndexError for some i of enumerate(options)
FormatRaises(options) ==
    /\ options # LabelsPrefix(Len(options))
    /\ Len(options) > Len(labels)

format_options(options) ==
    IF options = LabelsPrefix(Len(options))
    THEN Join([i \in 1..Len(options) |-> <<options[i]>>])
    ELSE Join([i \in 1..Len(options) |-> <<labels[i], ")", " ", options[i]>>])

\* build_text raises: "if options: options_str = format_options(options)"
BuildTextRaises(options) == options # <<>> /\ FormatRaises(options)

MultipleChoiceHead == "This is multiple choice. Answer with A, B, C, D, or E"
SingleNumberHead == "Answer with only a single number"

\* build_text: [raised, template, text]
build_text(question, options) ==
    IF options # <<>>
    THEN IF BuildTextRaises(options)
         THEN [raised |-> TRUE, template |-> None, text |-> <<>>]
         ELSE [raised |-> FALSE,
               template |-> MultipleChoiceHead,
               text |-> <<MultipleChoiceHead>> \o clean_question(question)
                        \o <<"\n", "Options: ">> \o format_options(options)]
    ELSE [raised |-> FALSE,
          template |-> SingleNumberHead,
          text |-> <<SingleNumberHead>> \o clean_question(question)]

(* ----------------------- asyncio primitives used ------------------------ *)

\* (mutant) no admission gate: a task never waits for a slot
SemaphoreNeverWaits(value) == TRUE

\* asyncio.Semaphore.acquire returns without waiting iff the value is positive
SemaphoreFree(value) == value > 0

\* (mutant) acquire()/release() around the body without try/finally: a task
\* that raises keeps its slot
SemaphoreLeakOnRaise(value, result) ==
    IF result.is_exception THEN value ELSE value + 1

\* "async with semaphore": __aexit__ releases the slot however the body ended
SemaphoreAfterExit(value, result) == value + 1

\* (mutant) asyncio.wait(tasks, return_when=FIRST_COMPLETED): the caller goes
\* on as soon as one task has finished
GatherFirstCompleted(states) ==
    states = <<>> \/ \E k \in 1..Len(states) : states[k] = "done"

\* asyncio.gather(*tasks, return_exceptions=True) resumes its caller when
\* every task has finished, by returning or by raising
GatherComplete(states) == \A k \in 1..Len(states) : states[k] = "done"

(* -------------------------------- state -------------------------------- *)

VARIABLES
    data,               \* test.jsonl, as load_test_data returns it
    file,               \* the results file: [exists, rows]
    pc,                 \* "idle", "gather" (awaiting gather), "returned", "raised"
    op,                 \* the invocation: "none", "single", "run", "resume",
                        \* "concurrent_run", "concurrent_resume"
    args,               \* its arguments --start and --n (--end in the older
                        \* script): [start, n]
    limit,              \* --concurrency, once the semaphore is made from it
    sem,                \* the semaphore's value
    tasks,              \* the coroutines handed to gather, in submission order
    st,                 \* per task: "queued", "inflight", "done"
    reply,              \* per task: what the network answered
    results,            \* per task: what gather collects for it
    failed_image_nums,  \* resume: the failed image_nums after the cap
    skipped,            \* resume: the reported number of skipped image_nums
    before,             \* the file's rows when the invocation started
    ret,                \* the list the invocation returned
    wrote,              \* the invocation has written the file
    overtaken,          \* some task finished before an earlier-submitted one
    scorer,             \* evaluate's frame: its locals and its position
    prompt              \* the last build_text call: arguments and outcome

\* the variables of run_benchmark and resume_benchmark
dispatcher ==
    <<data, file, pc, op, args, limit, sem, tasks, st, reply, results,
      failed_image_nums, skipped, before, ret, wrote, overtaken>>

vars == <<dispatcher, scorer, prompt>>

StartVals == 1..(DataLen + 1)
NVals == {Omitted} \cup {<<k>> : k \in 0..(DataLen - 1)}
\* --n without --resume_file: also the number of lines of the dataset
RunNVals == NVals \cup {<<DataLen>>}
ConcVals == 0..MaxConc

NoArgs == [start |-> 0, n |-> Omitted]

\* no entry scored yet
NoEntry ==
    [image_num |-> 0, expected |-> <<>>, raw_response |-> <<>>,
     extracted |-> <<>>, correct |-> FALSE, level |-> <<>>,
     is_multiple_choice |-> FALSE]

\* evaluate not called
NoEvaluate ==
    [pc |-> "idle", len |-> 0, idx |-> 0, levels |-> <<>>,
     options_map |-> <<>>, entry |-> NoEntry, level_stats |-> <<>>,
     mc_stats |-> ZeroStats, non_mc_stats |-> ZeroStats, correct |-> 0]

\* build_text not called
NoBuildText ==
    [called |-> FALSE, question |-> <<>>, options |-> <<>>,
     out |-> [raised |-> FALSE, template |-> None, text |-> <<>>]]

Init ==
    /\ data \in Datasets
    /\ file = [exists |-> FALSE, rows |-> <<>>]
    /\ pc = "idle"
    /\ op = "none"
    /\ args = NoArgs
    /\ limit = 0
    /\ sem = 0
    /\ tasks = <<>>
    /\ st = <<>>
    /\ reply = <<>>
    /\ results = <<>>
    /\ failed_image_nums = <<>>
    /\ skipped = 0
    /\ before = <<>>
    /\ ret = <<>>
    /\ wrote = FALSE
    /\ overtaken = FALSE
    /\ scorer = NoEvaluate
    /\ prompt = NoBuildText

\* semaphore = asyncio.Semaphore(concurrency); tasks = [...]; await gather(...)
Launch(ts, concurrency) ==
    /\ limit' = concurrency
    /\ sem' = concurrency
    /\ tasks' = ts
    /\ st' = [k \in 1..Len(ts) |-> "queued"]
    /\ reply' = [k \in 1..Len(ts) |-> NoReply]
    /\ results' = [k \in 1..Len(ts) |-> NoResult]
    /\ overtaken' = FALSE
    /\ pc' = "gather"

\* an invocation that ends before it creates the semaphore (it has not read
\* its concurrency argument)
NoLaunch(outcome) ==
    /\ limit' = 0
    /\ sem' = 0
    /\ tasks' = <<>>
    /\ st' = <<>>
    /\ reply' = <<>>
    /\ results' = <<>>
    /\ overtaken' = FALSE
    /\ pc' = outcome

\* semaphore = asyncio.Semaphore(concurrency), then the list comprehension
\* of the tasks raises: the semaphore is made and untouched, no task is run
LaunchRaises(concurrency) ==
    /\ limit' = concurrency
    /\ sem' = concurrency
    /\ tasks' = <<>>
    /\ st' = <<>>
    /\ reply' = <<>>
    /\ results' = <<>>
    /\ overtaken' = FALSE
    /\ pc' = "raised"

(* ------------------------------ run_single ---------------------------- *)

\* __main__ without --resume_file: "elif args.n == 1: run_single(args.start)"
MainRunsSingle(n) == n = <<1>>

\* the --n with which __main__ calls run_benchmark ("else:", lines 225-226)
MainRunNVals == {n \in RunNVals : ~MainRunsSingle(n)}

RunSingleEnter(image_num) ==
    /\ pc = "idle"
    /\ op' = "single"
    /\ args' = [start |-> image_num, n |-> <<1>>]
    /\ before' = <<>>
    /\ ret' = <<>>
    /\ wrote' = FALSE
    /\ failed_image_nums' = <<>>
    /\ skipped' = 0
    /\ limit' = 0
    /\ sem' = 0
    /\ tasks' = <<>>
    /\ st' = <<>>
    /\ overtaken' = FALSE
    /\ UNCHANGED <<scorer, prompt, data, file>>

\* "if image_num < 1 or image_num > len(data): raise ValueError"
RunSingleRejects(image_num, total) == image_num < 1 \/ image_num > total

\* run_single when --start is no line of the dataset (lines 84-87)
RunSingleBadStart(image_num) ==
    /\ RunSingleEnter(image_num)
    /\ RunSingleRejects(image_num, Len(data))
    /\ reply' = <<>>
    /\ results' = <<>>
    /\ pc' = "raised"

\* run_single when build_text raises IndexError (lines 84-91)
RunSingleBuildRaises(image_num) ==
    /\ RunSingleEnter(image_num)
    /\ ~RunSingleRejects(image_num, Len(data))
    /\ BuildTextRaises(data[image_num].options)
    /\ reply' = <<>>
    /\ results' = <<Raised("IndexError")>>
    /\ pc' = "raised"

\* run_single with its one synchronous request answered by r: it prints the
\* response, or generate raises; no file is written (lines 84-96)
RunSingle(image_num, r) ==
    /\ RunSingleEnter(image_num)
    /\ ~RunSingleRejects(image_num, Len(data))
    /\ ~BuildTextRaises(data[image_num].options)
    /\ reply' = <<r>>
    /\ results' = <<generate(image_num, r)>>
    /\ pc' = IF generate(image_num, r).is_exception THEN "raised"
             ELSE "returned"

(* ----------------------------- run_benchmark --------------------------- *)

RunEnter(start, n) ==
    /\ pc = "idle"
    /\ op' = "run"
    /\ args' = [start |-> start, n |-> n]
    /\ before' = <<>>
    /\ ret' = <<>>
    /\ wrote' = FALSE
    /\ failed_image_nums' = <<>>
    /\ skipped' = 0
    /\ UNCHANGED <<scorer, prompt, data, file>>

\* run_benchmark when resolve_end_idx raises ValueError (lines 99-101)
RunBadN(start, n) ==
    /\ RunEnter(start, n)
    /\ resolve_end_idx(start, n, Len(data)).raised
    /\ NoLaunch("raised")

\* building the tasks list raises IndexError at some data[i - 1]
RunTasksRaise(d, start, n) ==
    LET r == PyRange(start, resolve_end_idx(start, n, Len(d)).value)
    IN  \E k \in 1..Len(r) : PyIndexRaises(d, r[k] - 1)

\* run_benchmark when data[i - 1] raises IndexError (lines 99-113)
RunIndexError(start, n, concurrency) ==
    /\ RunEnter(start, n)
    /\ ~resolve_end_idx(start, n, Len(data)).raised
    /\ RunTasksRaise(data, start, n)
    /\ LaunchRaises(concurrency)

\* run_benchmark up to "await asyncio.gather" (lines 99-115)
RunLaunch(start, n, concurrency) ==
    /\ RunEnter(start, n)
    /\ ~resolve_end_idx(start, n, Len(data)).raised
    /\ ~RunTasksRaise(data, start, n)
    /\ Launch(RunTasks(data, start, resolve_end_idx(start, n, Len(data)).value),
              concurrency)

\* run_benchmark after gather: assemble, write the file, return (lines 117-137)
RunFinish ==
    /\ pc = "gather"
    /\ op = "run"
    /\ GatherComplete(st)
    /\ LET processed == Processed(data, args.start, results)
       IN  /\ file' = [exists |-> TRUE, rows |-> processed]
           /\ ret' = processed
    /\ wrote' = TRUE
    /\ pc' = "returned"
    /\ UNCHANGED <<scorer, prompt, data, op, args, limit, sem, tasks, st, reply, results,
                   failed_image_nums, skipped, before, overtaken>>

(* ------------------------------ the tasks ------------------------------ *)

\* generate_async raises IndexError in build_text (line 68), before it
\* reaches "async with semaphore": the task ends without a slot and without
\* a request
BuildTextRaise(k) ==
    /\ pc = "gather"
    /\ st[k] = "queued"
    /\ BuildTextRaises(tasks[k].options)
    /\ results' = [results EXCEPT ![k] = Raised("IndexError")]
    /\ st' = [st EXCEPT ![k] = "done"]
    /\ overtaken' = (overtaken \/ \E j \in 1..(k - 1) : st[j] # "done")
    /\ UNCHANGED <<scorer, prompt, data, file, pc, op, args, limit, sem,
                   tasks, reply, failed_image_nums, skipped, before, ret,
                   wrote>>

\* generate_async enters "async with semaphore" and posts its request.
\* Waiters are woken in the order they queued, which is submission order; a
\* task that ends in build_text never queues.
Acquire(k) ==
    /\ pc = "gather"
    /\ st[k] = "queued"
    /\ ~BuildTextRaises(tasks[k].options)
    /\ \A j \in 1..(k - 1) :
          st[j] = "queued" => BuildTextRaises(tasks[j].options)
    /\ SemaphoreFree(sem)
    /\ sem' = sem - 1
    /\ st' = [st EXCEPT ![k] = "inflight"]
    /\ UNCHANGED <<scorer, prompt, data, file, pc, op, args, limit, tasks, reply, results,
                   failed_image_nums, skipped, before, ret, wrote, overtaken>>

\* client.post resumes with r; the task returns or raises and leaves the block
Complete(k, r) ==
    /\ pc = "gather"
    /\ k \in 1..Len(tasks)
    /\ st[k] = "inflight"
    /\ reply' = [reply EXCEPT ![k] = r]
    /\ results' = [results EXCEPT ![k] = generate_async(tasks[k].image_num, r)]
    /\ sem' = SemaphoreAfterExit(sem, generate_async(tasks[k].image_num, r))
    /\ st' = [st EXCEPT ![k] = "done"]
    /\ overtaken' = (overtaken \/ \E j \in 1..(k - 1) : st[j] # "done")
    /\ UNCHANGED <<scorer, prompt, data, file, pc, op, args, limit, tasks,
                   failed_image_nums, skipped, before, ret, wrote>>

(* ---------------------------- resume_benchmark ------------------------- *)

\* "if n is not None: if n <= 0: raise ValueError"
RaisesForN(n) == IF n = Omitted THEN FALSE ELSE n[1] <= 0

ResumeEnter(n) ==
    /\ pc \in {"returned", "raised"}
    /\ file.exists
    /\ op' = "resume"
    /\ args' = [start |-> 0, n |-> n]
    /\ before' = file.rows
    /\ wrote' = FALSE
    /\ UNCHANGED <<scorer, prompt, data, file>>

\* "if not failed_entries: return existing_results" (lines 141-147)
ResumeNoFailed(n) ==
    /\ ResumeEnter(n)
    /\ FailedEntries(file.rows) = <<>>
    /\ failed_image_nums' = <<>>
    /\ skipped' = 0
    /\ ret' = file.rows
    /\ NoLaunch("returned")

\* "if n <= 0: raise ValueError" (lines 150-152)
ResumeBadN(n) ==
    /\ ResumeEnter(n)
    /\ FailedEntries(file.rows) # <<>>
    /\ RaisesForN(n)
    /\ failed_image_nums' = <<>>
    /\ skipped' = 0
    /\ ret' = <<>>
    /\ NoLaunch("raised")

\* "if not valid_image_nums: return existing_results" (lines 149-165)
ResumeNoValid(n) ==
    /\ ResumeEnter(n)
    /\ FailedEntries(file.rows) # <<>>
    /\ ~RaisesForN(n)
    /\ LET failed == FailedImageNums(file.rows, n)
           valid == ValidImageNums(data, failed)
       IN  /\ valid = <<>>
           /\ failed_image_nums' = failed
           /\ skipped' = Skipped(failed, valid)
    /\ ret' = file.rows
    /\ NoLaunch("returned")

\* resume_benchmark up to "await asyncio.gather" (lines 149-179)
ResumeLaunch(n, concurrency) ==
    /\ ResumeEnter(n)
    /\ FailedEntries(file.rows) # <<>>
    /\ ~RaisesForN(n)
    /\ LET failed == FailedImageNums(file.rows, n)
           valid == ValidImageNums(data, failed)
       IN  /\ valid # <<>>
           /\ failed_image_nums' = failed
           /\ skipped' = Skipped(failed, valid)
           /\ Launch(ResumeTasks(data, valid), concurrency)
    /\ ret' = <<>>

\* resume_benchmark after gather: merge, rewrite the file, return (lines 181-205)
ResumeFinish ==
    /\ pc = "gather"
    /\ op = "resume"
    /\ GatherComplete(st)
    /\ LET valid == ValidImageNums(data, failed_image_nums)
           merged == Merged(file.rows, NewResults(data, valid, results))
       IN  /\ file' = [exists |-> TRUE, rows |-> merged]
           /\ ret' = merged
    /\ wrote' = TRUE
    /\ pc' = "returned"
    /\ UNCHANGED <<scorer, prompt, data, op, args, limit, sem, tasks, st, reply, results,
                   failed_image_nums, skipped, before, overtaken>>

(* ------------------------------ behaviours ----------------------------- *)

Next ==
    \/ \E start \in StartVals : RunSingleBadStart(start)
    \/ \E start \in StartVals : RunSingleBuildRaises(start)
    \/ \E start \in StartVals, r \in Replies : RunSingle(start, r)
    \/ \E start \in StartVals, n \in MainRunNVals : RunBadN(start, n)
    \/ \E start \in StartVals, n \in MainRunNVals, c \in ConcVals :
          RunLaunch(start, n, c)
    \/ RunFinish
    \/ \E k \in 1..Len(tasks) : BuildTextRaise(k)
    \/ \E k \in 1..Len(tasks) : Acquire(k)
    \/ \E k \in 1..Len(tasks), r \in Replies : Complete(k, r)
    \/ \E n \in NVals : ResumeNoFailed(n)
    \/ \E n \in NVals : ResumeBadN(n)
    \/ \E n \in NVals : ResumeNoValid(n)
    \/ \E n \in NVals, c \in ConcVals : ResumeLaunch(n, c)
    \/ ResumeFinish

Spec == Init /\ [][Next]_vars

(* --------- the script without --resume_file, for every integer --start -- *)

\* --start is any integer: argparse takes it and run_benchmark does not
\* check it (run_single does)
AnyStartVals == (0 - DataLen - 1)..(DataLen + 1)

AnyStartNext ==
    \/ \E start \in AnyStartVals : RunSingleBadStart(start)
    \/ \E start \in AnyStartVals : RunSingleBuildRaises(start)
    \/ \E start \in AnyStartVals, r \in Replies : RunSingle(start, r)
    \/ \E start \in AnyStartVals, n \in MainRunNVals : RunBadN(start, n)
    \/ \E start \in AnyStartVals, n \in MainRunNVals, c \in ConcVals :
          RunIndexError(start, n, c)
    \/ \E start \in AnyStartVals, n \in MainRunNVals, c \in ConcVals :
          RunLaunch(start, n, c)
    \/ RunFinish
    \/ \E k \in 1..Len(tasks) : BuildTextRaise(k)
    \/ \E k \in 1..Len(tasks) : Acquire(k)
    \/ \E k \in 1..Len(tasks), r \in Replies : Complete(k, r)

AnyStartSpec == Init /\ [][AnyStartNext]_vars

(* ------------- src/test_endpoint_concurrent.py, the older script -------- *)

\* --end: omitted, or an integer (argparse takes any)
EndVals == {Omitted} \cup {<<k>> : k \in (0 - 1)..(DataLen + 1)}

\* --start of the older script: no check is made
ConcurrentStartVals == 0..(DataLen + 1)

\* "if end_idx is None: end_idx = len(data)"
ConcurrentEndIdx(end_idx, total) ==
    IF end_idx = Omitted THEN total ELSE end_idx[1]

\* s[:k] of Python (a negative k counts from the end)
PyPrefix(s, k) ==
    IF k >= 0 THEN SubSeq(s, 1, Min(k, Len(s)))
    ELSE IF Len(s) + k > 0 THEN SubSeq(s, 1, Len(s) + k) ELSE <<>>

ConcurrentRunEnter(start_idx, end_idx) ==
    /\ pc = "idle"
    /\ op' = "concurrent_run"
    /\ args' = [start |-> start_idx, n |-> end_idx]
    /\ before' = <<>>
    /\ ret' = <<>>
    /\ wrote' = FALSE
    /\ failed_image_nums' = <<>>
    /\ skipped' = 0
    /\ UNCHANGED <<scorer, prompt, data, file>>

\* building the tasks list raises IndexError at some data[i-1]
ConcurrentTasksRaise(d, start_idx, end_idx) ==
    LET r == PyRange(start_idx, ConcurrentEndIdx(end_idx, Len(d)))
    IN  \E k \in 1..Len(r) : PyIndexRaises(d, r[k] - 1)

\* run_benchmark of the older script when data[i-1] raises (lines 35-46)
ConcurrentRunIndexError(start_idx, end_idx, concurrency) ==
    /\ ConcurrentRunEnter(start_idx, end_idx)
    /\ ConcurrentTasksRaise(data, start_idx, end_idx)
    /\ LaunchRaises(concurrency)

\* run_benchmark of the older script up to gather (lines 35-47)
ConcurrentRunLaunch(start_idx, end_idx, concurrency) ==
    /\ ConcurrentRunEnter(start_idx, end_idx)
    /\ ~ConcurrentTasksRaise(data, start_idx, end_idx)
    /\ Launch(RunTasks(data, start_idx, ConcurrentEndIdx(end_idx, Len(data))),
              concurrency)

\* run_benchmark of the older script after gather (lines 49-69)
ConcurrentRunFinish ==
    /\ pc = "gather"
    /\ op = "concurrent_run"
    /\ GatherComplete(st)
    /\ LET processed == Processed(data, args.start, results)
       IN  /\ file' = [exists |-> TRUE, rows |-> processed]
           /\ ret' = processed
    /\ wrote' = TRUE
    /\ pc' = "returned"
    /\ UNCHANGED <<scorer, prompt, data, op, args, limit, sem, tasks, st,
                   reply, results, failed_image_nums, skipped, before,
                   overtaken>>

\* failed_image_nums, with failed_image_nums[:end_idx] when --end is given
ConcurrentFailedImageNums(rows, end_idx) ==
    LET f == FailedEntries(rows)
        nums == [k \in 1..Len(f) |-> f[k].image_num]
    IN  IF end_idx = Omitted THEN nums ELSE PyPrefix(nums, end_idx[1])

\* test_data_map = {i+1: test_data[i] for i in range(len(test_data))}
InPositionMap(d, image_num) == image_num \in 1..Len(d)

ConcurrentValidImageNums(d, failed) ==
    LET Known(image_num) == InPositionMap(d, image_num)
    IN  SelectSeq(failed, Known)

ConcurrentResumeTasks(d, valid) ==
    [k \in 1..Len(valid) |-> Task(valid[k], d[valid[k]])]

ConcurrentNewResults(d, valid, res) ==
    [k \in 1..Min(Len(valid), Len(res)) |->
        MakeEntry(valid[k], d[valid[k]], res[k])]

ConcurrentResumeEnter(end_idx) ==
    /\ pc \in {"returned", "raised"}
    /\ file.exists
    /\ op' = "concurrent_resume"
    /\ args' = [start |-> 0, n |-> end_idx]
    /\ before' = file.rows
    /\ wrote' = FALSE
    /\ UNCHANGED <<scorer, prompt, data, file>>

\* "if not failed_entries: return existing_results" (lines 71-79)
ConcurrentResumeNoFailed(end_idx) ==
    /\ ConcurrentResumeEnter(end_idx)
    /\ FailedEntries(file.rows) = <<>>
    /\ failed_image_nums' = <<>>
    /\ skipped' = 0
    /\ ret' = file.rows
    /\ NoLaunch("returned")

\* "if not valid_image_nums: return existing_results" (lines 81-101)
ConcurrentResumeNoValid(end_idx) ==
    /\ ConcurrentResumeEnter(end_idx)
    /\ FailedEntries(file.rows) # <<>>
    /\ LET failed == ConcurrentFailedImageNums(file.rows, end_idx)
           valid == ConcurrentValidImageNums(data, failed)
       IN  /\ valid = <<>>
           /\ failed_image_nums' = failed
           /\ skipped' = Skipped(failed, valid)
    /\ ret' = file.rows
    /\ NoLaunch("returned")

\* resume_benchmark of the older script up to gather (lines 71-116)
ConcurrentResumeLaunch(end_idx, concurrency) ==
    /\ ConcurrentResumeEnter(end_idx)
    /\ FailedEntries(file.rows) # <<>>
    /\ LET failed == ConcurrentFailedImageNums(file.rows, end_idx)
           valid == ConcurrentValidImageNums(data, failed)
       IN  /\ valid # <<>>
           /\ failed_image_nums' = failed
           /\ skipped' = Skipped(failed, valid)
           /\ Launch(ConcurrentResumeTasks(data, valid), concurrency)
    /\ ret' = <<>>

\* resume_benchmark of the older script after gather (lines 118-140)
ConcurrentResumeFinish ==
    /\ pc = "gather"
    /\ op = "concurrent_resume"
    /\ GatherComplete(st)
    /\ LET valid == ConcurrentValidImageNums(data, failed_image_nums)
           merged == Merged(file.rows,
                            ConcurrentNewResults(data, valid, results))
       IN  /\ file' = [exists |-> TRUE, rows |-> merged]
           /\ ret' = merged
    /\ wrote' = TRUE
    /\ pc' = "returned"
    /\ UNCHANGED <<scorer, prompt, data, op, args, limit, sem, tasks, st,
                   reply, results, failed_image_nums, skipped, before,
                   overtaken>>

\* one session of "python test_endpoint_concurrent.py" on one results file
ConcurrentNext ==
    \/ \E start_idx \in ConcurrentStartVals, end_idx \in EndVals,
          c \in ConcVals : ConcurrentRunIndexError(start_idx, end_idx, c)
    \/ \E start_idx \in ConcurrentStartVals, end_idx \in EndVals,
          c \in ConcVals : ConcurrentRunLaunch(start_idx, end_idx, c)
    \/ ConcurrentRunFinish
    \/ \E k \in 1..Len(tasks) : BuildTextRaise(k)
    \/ \E k \in 1..Len(tasks) : Acquire(k)
    \/ \E k \in 1..Len(tasks), r \in Replies : Complete(k, r)
    \/ \E end_idx \in EndVals : ConcurrentResumeNoFailed(end_idx)
    \/ \E end_idx \in EndVals : ConcurrentResumeNoValid(end_idx)
    \/ \E end_idx \in EndVals, c \in ConcVals :
          ConcurrentResumeLaunch(end_idx, c)
    \/ ConcurrentResumeFinish

ConcurrentSpec == Init /\ [][ConcurrentNext]_vars

(* ------------------------- evaluate, the scorer ------------------------- *)

\* the lines a scorer's test.jsonl can hold for one id
TestLineVals ==
    { [level |-> 1, options |-> <<>>],
      [level |-> 2, options |-> <<"A", "B">>],
      [level |-> 0, options |-> <<"A", "B">>] }

\* image numbers of the entries of a results file
ImageNums == 1..MaxEntries

\* test.jsonl as the scorer reads it: some of the image numbers have a line
TestFiles == UNION {[S -> TestLineVals] : S \in SUBSET ImageNums}

\* expected answers of the results file
ExpectedVals == { <<"7">>, <<" ", "7", "\n">>, <<"e">> }

\* raw responses of the results file: null (the task failed), no tag, an
\* opening tag alone, two tag pairs after some text
RawVals ==
    { Null,
      <<"7">>,
      <<OpenTag, "7">>,
      <<"x", OpenTag, " ", "7", CloseTag, OpenTag, "8", CloseTag>> }

EntryVals ==
    [image_num : ImageNums, expected : ExpectedVals, raw_response : RawVals]

Levels == {l.level : l \in TestLineVals}

\* evaluate up to the loop (lines 36-52); the entries of results are
\* drawn as the loop reaches them, len of them in all
EvaluateEnter(test_file, len) ==
    /\ scorer.pc = "idle"
    /\ scorer' = [pc |-> "loop",
                  len |-> len,
                  idx |-> 0,
                  levels |-> load_levels(test_file),
                  options_map |-> load_options(test_file),
                  entry |-> NoEntry,
                  level_stats |-> [l \in Levels |-> ZeroStats],
                  mc_stats |-> ZeroStats,
                  non_mc_stats |-> ZeroStats,
                  correct |-> 0]
    /\ UNCHANGED <<dispatcher, prompt>>

\* one turn of "for entry in results" (lines 53-85)
EvaluateEntry(entry) ==
    /\ scorer.pc = "loop"
    /\ scorer.idx < scorer.len
    /\ LET e == Annotate(entry, scorer.levels, scorer.options_map)
       IN  scorer' =
             [scorer EXCEPT
                !.idx = @ + 1,
                !.entry = e,
                !.level_stats =
                    IF LevelTruthy(e.level)
                    THEN [@ EXCEPT ![e.level[1]] = Count(@, e.correct)]
                    ELSE @,
                !.mc_stats =
                    IF e.is_multiple_choice THEN Count(@, e.correct) ELSE @,
                !.non_mc_stats =
                    IF e.is_multiple_choice THEN @ ELSE Count(@, e.correct),
                !.correct = IF e.correct THEN @ + 1 ELSE @]
    /\ UNCHANGED <<dispatcher, prompt>>

\* "accuracy = correct / len(results) * 100" on an empty results file
\* raises ZeroDivisionError (line 88)
EvaluateEmpty ==
    /\ scorer.pc = "loop"
    /\ scorer.idx = scorer.len
    /\ scorer.len = 0
    /\ scorer' = [scorer EXCEPT !.pc = "raised"]
    /\ UNCHANGED <<dispatcher, prompt>>

\* the printing and the write of the evaluated file (lines 87-108)
EvaluateFinish ==
    /\ scorer.pc = "loop"
    /\ scorer.idx = scorer.len
    /\ scorer.len # 0
    /\ scorer' = [scorer EXCEPT !.pc = "saved"]
    /\ UNCHANGED <<dispatcher, prompt>>

EvaluateNext ==
    \/ \E test_file \in TestFiles, len \in 0..MaxEntries :
          EvaluateEnter(test_file, len)
    \/ \E entry \in EntryVals : EvaluateEntry(entry)
    \/ EvaluateEmpty
    \/ EvaluateFinish

\* evaluate reads test.jsonl itself (lines 41-43): the dispatcher's copy of
\* it plays no part and is held to the dataset of ids 1..DataLen
EvaluateInit == Init /\ data = load_test_data(PositionIds, NoOptions)

EvaluateSpec == EvaluateInit /\ [][EvaluateNext]_vars

(* ------------------------- build_text, called -------------------------- *)

QuestionVals ==
    { <<"q">>,
      <<"q", "\n", ImageTag>>,
      <<ImageTag, "q", "\n">>,
      <<"q", "\n", "\n", ImageTag, ImageTag>> }

OptionVals == {"A", "B", "7"}

RECURSIVE SeqsUpTo(_, _)
SeqsUpTo(S, k) ==
    IF k = 0 THEN {<<>>}
    ELSE LET shorter == SeqsUpTo(S, k - 1)
         IN  shorter \cup {Append(s, x) : s \in shorter, x \in S}

OptionLists == SeqsUpTo(OptionVals, MaxOptions)

\* one call build_text(question, options) (lines 32-47)
BuildText(question, options) ==
    /\ ~prompt.called
    /\ prompt' = [called |-> TRUE,
                  question |-> question,
                  options |-> options,
                  out |-> build_text(question, options)]
    /\ UNCHANGED <<dispatcher, scorer>>

BuildTextNext == \E question \in QuestionVals, options \in OptionLists :
                     BuildText(question, options)

BuildTextSpec == Init /\ [][BuildTextNext]_vars

(* ---------------- scheduling assumed for the liveness claims ------------ *)

\* A step of a launched batch: a task ends in build_text, a task takes a
\* slot, a request is answered (by a response or by a transport/timeout
\* exception), or the caller of gather is resumed.
BatchStep ==
    \/ \E k \in 1..Len(tasks) : BuildTextRaise(k)
    \/ \E k \in 1..Len(tasks) : Acquire(k)
    \/ \E k \in 1..Len(tasks), r \in Replies : Complete(k, r)
    \/ RunFinish
    \/ ResumeFinish

\* The event loop keeps running what can run and every issued request is
\* answered, so a batch that can take a step takes one.  Nothing obliges the
\* user to start another invocation.
Fairness == WF_vars(BatchStep)

FairSpec == Spec /\ Fairness

(* ------------------------- vocabulary of the claims -------------------- *)

TaskIds == 1..Len(tasks)
InFlight == {k \in TaskIds : st[k] = "inflight"}
Queued == {k \in TaskIds : st[k] = "queued"}
FailedTasks == {k \in TaskIds : st[k] = "done" /\ results[k].is_exception}
SucceededTasks == {k \in TaskIds : st[k] = "done" /\ ~results[k].is_exception}

\* the tasks that post a request, and those that end in build_text before
NeedsSlot == {k \in TaskIds : ~BuildTextRaises(tasks[k].options)}
NoRequest == TaskIds \ NeedsSlot

\* what gather collects for task k, from the task's own line and answer
Outcome(k) ==
    IF k \in NoRequest THEN Raised("IndexError")
    ELSE generate_async(tasks[k].image_num, reply[k])

\* the invocation has passed its gather and written the file
Dispatched == pc = "returned" /\ wrote

\* The retry set of a resume pass, stated on the file as it was when the pass
\* started: the rows with an error, the first n of them, those whose
\* image_num is the id of a dataset line.
ErrorRows == {i \in 1..Len(before) : before[i].error # Absent}
RankAmongErrors(i) == Cardinality({j \in ErrorRows : j <= i})
CappedRows ==
    {i \in ErrorRows : args.n = Omitted \/ RankAmongErrors(i) <= args.n[1]}
InDataset(image_num) == \E p \in 1..Len(data) : data[p].id = image_num
RetryRows == {i \in CappedRows : InDataset(before[i].image_num)}
SkippedRows == {i \in CappedRows : ~InDataset(before[i].image_num)}
RetrySet == {before[i].image_num : i \in RetryRows}

\* the rows of the file written for task k
RowsOfTask(k) ==
    IF op = "run" THEN {k}
    ELSE {i \in 1..Len(file.rows) : file.rows[i].image_num = tasks[k].image_num}

(* -------------------------------- claims ------------------------------- *)

\* C1: at every moment of a batch, at most C tasks are inside the
\* "async with semaphore" block, C being the concurrency limit.
C1_AtMostCInFlight == Cardinality(InFlight) <= limit

\* C1 witness: a batch of more tasks than slots, all slots taken, a task waiting
C1_Witness ==
    /\ pc = "gather"
    /\ limit >= 1
    /\ Cardinality(InFlight) = limit
    /\ Queued # {}

\* C2: a failed task neither blocks nor cancels the others: its slot is free
\* again for the queued tasks, and when the batch has returned every other
\* task has finished with the outcome of its own request.
C2_FailureIsolation ==
    /\ (pc = "gather" /\ FailedTasks # {})
          => sem + Cardinality(InFlight) = limit
    /\ Dispatched =>
          \A j \in FailedTasks : \A k \in TaskIds \ {j} :
              /\ st[k] = "done"
              /\ k \in NeedsSlot => reply[k] \in Replies
              /\ k \in NoRequest => reply[k] = NoReply
              /\ results[k] = Outcome(k)

\* C2 witness: the first task failed while a later one was still queued, and
\* that later task succeeded
C2_Witness ==
    /\ Dispatched
    /\ limit = 1
    /\ \E j \in FailedTasks : \E k \in SucceededTasks : j < k

\* C3: the output has one entry per submitted task and the k-th entry carries
\* the image_num and the outcome of the k-th task, whatever the completion
\* order; in a resume pass the k-th result goes to the k-th valid image_num.
C3_PositionalPairing ==
    Dispatched =>
        /\ op = "run" => Len(file.rows) = Len(tasks)
        /\ \A k \in TaskIds : \A i \in RowsOfTask(k) :
              /\ file.rows[i].image_num = tasks[k].image_num
              /\ file.rows[i].question = tasks[k].question
              /\ file.rows[i] =
                    MakeEntry(tasks[k].image_num,
                              [question |-> tasks[k].question,
                               answer |-> file.rows[i].expected],
                              Outcome(k))
        /\ op = "resume" => \A k \in TaskIds : RowsOfTask(k) # {}

\* C3 witness: a later task finished first and the outcomes differ
C3_Witness ==
    /\ Dispatched
    /\ op = "run"
    /\ overtaken
    /\ FailedTasks # {}
    /\ SucceededTasks # {}

\* C4 (as claimed): every entry written by a dispatch has exactly one of
\* raw_response and error non-null.
C4_ExactlyOneOfResponseAndError ==
    Dispatched =>
        \A k \in TaskIds : \A i \in RowsOfTask(k) :
            (file.rows[i].raw_response # None)
                # (file.rows[i].error \notin {Absent, None})

\* C5: the file is written only when every submitted task has finished.
C5_JoinBarrier == wrote => \A k \in TaskIds : st[k] = "done"

\* C5 witness: the file is written after a batch of several tasks of which
\* some failed
C5_Witness ==
    /\ wrote
    /\ Len(tasks) >= 2
    /\ FailedTasks # {}
    /\ SucceededTasks # {}

\* C6: with a positive concurrency limit and every request answered, a
\* launched batch always gets to the point where every task has finished,
\* every slot is back and the file is written.
C6_BatchTerminates ==
    (pc = "gather" /\ limit > 0)
        ~> (/\ pc = "returned"
            /\ wrote
            /\ \A k \in TaskIds : st[k] = "done"
            /\ sem = limit)

\* C6 witness: a finished batch of more tasks than slots in which a task failed
C6_Witness ==
    /\ Dispatched
    /\ limit > 0
    /\ Len(tasks) > limit
    /\ FailedTasks # {}
    /\ sem = limit

\* C7 (as claimed): a task answered with a non-200 status, or whose request
\* raised a transport/timeout exception, gets an entry with an error string
\* and a null raw_response.
C7_Non200IsAnError ==
    Dispatched =>
        \A k \in TaskIds :
            (reply[k].kind = "timeout" \/
             (reply[k].kind = "response" /\ reply[k].status # 200)) =>
                \A i \in RowsOfTask(k) :
                    /\ file.rows[i].error \notin {Absent, None}
                    /\ file.rows[i].raw_response = None

\* C8: in a resume pass every row whose image_num is not in the valid, capped
\* retry set is the same before and after; the file keeps its length.
C8_ResumeFrame ==
    op = "resume" =>
        /\ Len(file.rows) = Len(before)
        /\ \A i \in 1..Len(before) :
              before[i].image_num \notin RetrySet => file.rows[i] = before[i]

\* C8 witness: a pass that replaced a row and left a failed row alone
C8_Witness ==
    /\ op = "resume"
    /\ Dispatched
    /\ \E i \in ErrorRows : i \notin RetryRows /\ file.rows[i] = before[i]
    /\ \E i \in RetryRows : file.rows[i] # before[i]

\* C9: a resume pass whose retry set is empty issues no request, does not
\* write the file, and returns the array as it was.
C9_EmptyRetrySetIsNoOp ==
    (op = "resume" /\ pc = "returned" /\ RetryRows = {}) =>
        /\ tasks = <<>>
        /\ ~wrote
        /\ file.rows = before
        /\ ret = before

\* C9 witness: the file has failed rows, none of them in the dataset
C9_Witness ==
    /\ op = "resume"
    /\ pc = "returned"
    /\ ErrorRows # {}
    /\ RetryRows = {}

\* C10: the failed rows (after the cap) whose image_num is not in the dataset
\* are counted as skipped, get no request and stay as they were; the others
\* are requested once each and replaced in place.
C10_MissingDatasetItemSkipped ==
    (op = "resume" /\ pc \in {"gather", "returned"} /\ ErrorRows # {}) =>
        /\ skipped = Cardinality(SkippedRows)
        /\ \A i \in SkippedRows :
              /\ \A k \in TaskIds : tasks[k].image_num # before[i].image_num
              /\ file.rows[i] = before[i]
        /\ \A i \in RetryRows :
              Cardinality({k \in TaskIds :
                              tasks[k].image_num = before[i].image_num}) = 1
        /\ Len(tasks) = Cardinality(RetryRows)
        /\ Dispatched =>
              \A i \in RetryRows : \E k \in TaskIds :
                  /\ tasks[k].image_num = before[i].image_num
                  /\ file.rows[i].image_num = before[i].image_num
                  /\ file.rows[i].error = Outcome(k).str
                  /\ file.rows[i].raw_response = Outcome(k).raw_response

\* C10 witness: one failed image_num skipped, another retried and replaced
C10_Witness ==
    /\ op = "resume"
    /\ Dispatched
    /\ skipped >= 1
    /\ Len(tasks) >= 1
    /\ \E i \in RetryRows : file.rows[i] # before[i]

\* the image_nums of the rows that hold an error
ErrorNums(rows) == {rows[i].image_num : i \in {j \in 1..Len(rows) : rows[j].error # Absent}}

\* the image_nums of the retry rows, in file order
RECURSIVE RetrySeqFrom(_)
RetrySeqFrom(i) ==
    IF i > Len(before) THEN <<>>
    ELSE IF i \in RetryRows THEN <<before[i].image_num>> \o RetrySeqFrom(i + 1)
    ELSE RetrySeqFrom(i + 1)

\* C11: a row that holds no error when a resume pass starts is not requested
\* again and not replaced by that pass.
C11_SuccessfulRowsUntouched ==
    op = "resume" =>
        \A i \in 1..Len(before) :
            before[i].error = Absent =>
                /\ file.rows[i] = before[i]
                /\ \A k \in TaskIds : tasks[k].image_num # before[i].image_num

\* C11 witness: a pass that replaced a failed row of a file that also holds a
\* successful row
C11_Witness ==
    /\ op = "resume"
    /\ Dispatched
    /\ \E i \in 1..Len(before) :
          before[i].error = Absent /\ before[i].raw_response # None
    /\ \E i \in RetryRows : file.rows[i] # before[i]

\* C12: a resume pass keeps the length of the array and the image_num at
\* every position, and a retried row is exactly the entry built from the new
\* outcome: nothing of the old entry, its error in particular, is left in it.
C12_ShapeKeptRowsReplacedWhole ==
    op = "resume" =>
        /\ Len(file.rows) = Len(before)
        /\ \A i \in 1..Len(before) : file.rows[i].image_num = before[i].image_num
        /\ Dispatched =>
              \A i \in RetryRows : \E k \in TaskIds :
                  /\ tasks[k].image_num = before[i].image_num
                  /\ results[k].is_exception =>
                        /\ file.rows[i].error = results[k].str
                        /\ file.rows[i].raw_response = None
                  /\ ~results[k].is_exception =>
                        /\ file.rows[i].error = Absent
                        /\ file.rows[i].raw_response = results[k].raw_response

\* C12 witness: a failed row that is not the first row of the file was
\* retried with success
C12_Witness ==
    /\ op = "resume"
    /\ Dispatched
    /\ \E i \in RetryRows :
          /\ i > 1
          /\ 1 \notin RetryRows
          /\ file.rows[i].error = Absent
          /\ file.rows[i].raw_response # None

\* C13 (as claimed): the tasks of a resume pass are, in file order, the
\* image_nums of the rows with an error, cut to the first n, less those that
\* are no dataset id, so there are at most n of them; and when the pass has
\* returned exactly one request was issued for each of them.
C13_RetrySetExact ==
    (op = "resume" /\ pc \in {"gather", "returned"}) =>
        /\ [k \in TaskIds |-> tasks[k].image_num] = RetrySeqFrom(1)
        /\ args.n # Omitted => Len(tasks) <= args.n[1]
        /\ Dispatched => \A k \in TaskIds : reply[k] \in Replies

\* C17 (as claimed): the entry a resume pass writes for image_num k has the
\* question and the expected answer the original dispatch of k wrote, and the
\* retry asks the same question.
C17_ResumeSelectsSameItem ==
    (op = "resume" /\ Dispatched) =>
        \A i \in RetryRows :
            /\ file.rows[i].question = before[i].question
            /\ file.rows[i].expected = before[i].expected
            /\ \A k \in TaskIds :
                  tasks[k].image_num = before[i].image_num
                      => tasks[k].question = before[i].question

\* C19: the set of image_nums in an error state never grows: no step of the
\* program adds an image_num to the rows of the file that hold an error.
C19_ErrorSetNeverGrows ==
    [][file.exists => ErrorNums(file.rows') \subseteq ErrorNums(file.rows)]_vars

\* C19 witness: a pass after which fewer image_nums are in error, some still are
C19_Witness ==
    /\ op = "resume"
    /\ Dispatched
    /\ ErrorNums(file.rows) # ErrorNums(before)
    /\ ErrorNums(file.rows) # {}

\* C18 (as claimed): every entry run_benchmark writes has an image_num in
\* 1..total and the question and answer of the dataset line at that 1-indexed
\* position; the tasks are those of start..min(start + n - 1, total), at most
\* n of them; whatever integer start is.
C18_RunRangeWithinDataset ==
    (op = "run" /\ Dispatched) =>
        /\ \A i \in 1..Len(file.rows) :
              /\ file.rows[i].image_num \in 1..Len(data)
              /\ file.rows[i].question = data[file.rows[i].image_num].question
              /\ file.rows[i].expected = data[file.rows[i].image_num].answer
        /\ {tasks[k].image_num : k \in TaskIds} =
              {i \in args.start..Len(data) :
                  args.n = Omitted \/ i <= args.start + args.n[1] - 1}
        /\ args.n # Omitted => Len(tasks) <= args.n[1]

(* ---- scorer ---- *)

\* the response is a str holding an opening answer tag and, after it, a
\* closing one
HasAnswerTagPair(response) ==
    /\ IsStr(response)
    /\ \E i \in 1..Len(response), j \in 1..Len(response) :
          i < j /\ response[i] = OpenTag /\ response[j] = CloseTag

RECURSIVE SumOver(_, _)
SumOver(f, S) ==
    IF S = {} THEN 0
    ELSE LET x == CHOOSE y \in S : TRUE IN f[x] + SumOver(f, S \ {x})

LevelTotal(sc) == SumOver([l \in Levels |-> sc.level_stats[l].total], Levels)
LevelCorrect(sc) == SumOver([l \in Levels |-> sc.level_stats[l].correct], Levels)
TypeTotal(sc) == sc.mc_stats.total + sc.non_mc_stats.total
TypeCorrect(sc) == sc.mc_stats.correct + sc.non_mc_stats.correct

\* the step scored one more entry
ScoredOne == scorer.pc = "loop" /\ scorer'.idx = scorer.idx + 1

\* C14 (as claimed): an entry whose raw_response is null or holds no answer
\* tag pair gets the sentinel as its extracted value and is marked
\* incorrect, whatever its expected answer.
C14_NoAnswerIsIncorrect ==
    (scorer.idx > 0 /\ ~HasAnswerTagPair(scorer.entry.raw_response)) =>
        /\ scorer.entry.extracted = NoneStr
        /\ ~scorer.entry.correct

\* C15 (as claimed): once evaluate has processed all entries, the per-level
\* totals and the two question-type totals each sum to the number of
\* entries, and the per-level and the per-type correct counts each sum to
\* the overall correct count.
C15_BothPartitionsComplete ==
    scorer.pc = "saved" =>
        /\ LevelTotal(scorer) = scorer.len
        /\ TypeTotal(scorer) = scorer.len
        /\ LevelCorrect(scorer) = scorer.correct
        /\ TypeCorrect(scorer) = scorer.correct

\* C15 (amended): every entry is counted in exactly one question-type
\* bucket, multiple choice iff the dataset has non-empty options for its
\* image_num, so the two type totals sum to the number of entries scored and
\* the two type correct counts to the overall correct count; an entry is
\* counted in the bucket of its level, and in that one only, when the
\* dataset has a level for its image_num and the level is not 0, and in no
\* level bucket otherwise, so the per-level totals and correct counts sum to
\* at most the number of entries and the overall correct count.
C15_TypePartitionLevelPartial ==
    [][scorer'.pc # "idle" =>
        /\ TypeTotal(scorer') = scorer'.idx
        /\ TypeCorrect(scorer') = scorer'.correct
        /\ LevelTotal(scorer') <= scorer'.idx
        /\ LevelCorrect(scorer') <= scorer'.correct
        /\ ScoredOne =>
            LET e == scorer'.entry
                one == IF e.correct THEN 1 ELSE 0
                mc == IF e.is_multiple_choice THEN 1 ELSE 0
            IN  /\ e.is_multiple_choice <=>
                      (/\ e.image_num \in DOMAIN scorer.options_map
                       /\ scorer.options_map[e.image_num] # <<>>)
                /\ scorer'.mc_stats.total = scorer.mc_stats.total + mc
                /\ scorer'.non_mc_stats.total =
                      scorer.non_mc_stats.total + (1 - mc)
                /\ scorer'.mc_stats.correct =
                      scorer.mc_stats.correct + mc * one
                /\ scorer'.non_mc_stats.correct =
                      scorer.non_mc_stats.correct + (1 - mc) * one
                /\ scorer'.correct = scorer.correct + one
                /\ \A l \in Levels :
                      LET in == IF /\ e.image_num \in DOMAIN scorer.levels
                                   /\ scorer.levels[e.image_num] = l
                                   /\ l # 0
                                THEN 1 ELSE 0
                      IN  /\ scorer'.level_stats[l].total =
                                scorer.level_stats[l].total + in
                          /\ scorer'.level_stats[l].correct =
                                scorer.level_stats[l].correct + in * one
      ]_vars

\* evaluate has saved a file of which one correct entry is in a level
\* bucket and another entry is in none
C15_Witness ==
    /\ scorer.pc = "saved"
    /\ LevelTotal(scorer) > 0
    /\ LevelTotal(scorer) < scorer.len
    /\ LevelCorrect(scorer) > 0
    /\ scorer.mc_stats.total > 0
    /\ scorer.non_mc_stats.total > 0

(* ---- prompt builder ---- *)

\* C16 (as claimed): build_text returns a string for every question and
\* every options list, from the multiple-choice template exactly when
\* options is non-empty and from the single-number template otherwise.
C16_BuildTextTotal ==
    prompt.called =>
        /\ ~prompt.out.raised
        /\ prompt.out.template =
              IF prompt.options # <<>> THEN MultipleChoiceHead
              ELSE SingleNumberHead

====
